---- MODULE Spec2Model ----
(***************************************************************************)
(* The CHIP8 emulator of src/emulators/CHIP8.rs as a state machine.        *)
(*                                                                         *)
(* The state is the CHIP8 struct, the two output streams the code writes   *)
(* to (stderr through eprintln!, stdout through println!), the panic that  *)
(* ended the object's life if one happened, and the host's last call       *)
(* together with the object as that call found it (a history variable, so  *)
(* that a property of two calls in a row is a property of one step).       *)
(* Each public operation of the Emulator trait is one action.              *)
(*                                                                         *)
(* Representation.  memory is the 4096-byte array, kept as the function    *)
(* from its nonzero addresses to their bytes (every other cell reads 0);   *)
(* gfx is the 2048-cell array of 0/1 pixels, kept as the set of cells      *)
(* that hold 1.  V, stack and key are functions on 0..15.                  *)
(*                                                                         *)
(* Build-dependent arithmetic.  Rust leaves two things to the build, and   *)
(* the model keeps both as choices fixed at construction:                  *)
(*   overflow_checks  an overflowing +, - or shift panics (TRUE, the debug *)
(*                    profile) or wraps (FALSE, the release profile: the   *)
(*                    result is reduced modulo 2^w, a shift amount modulo  *)
(*                    w);                                                  *)
(*   wide_index       the register-index expressions                       *)
(*                    (self.opcode & 0xF00) >> 16 have no declared type;   *)
(*                    they are evaluated at the width of opcode, u16       *)
(*                    (FALSE), or at the width of the index they are used  *)
(*                    as, usize (TRUE).                                    *)
(* An expression whose destination has a declared type (the fetch into     *)
(* opcode: u16, the sprite position used as a usize index) is evaluated at *)
(* the destination's width.                                                *)
(***************************************************************************)
EXTENDS Integers, Sequences, FiniteSets, TLC

(* ---------------------------------------------------------------------- *)
(* Program constants                                                       *)
(* ---------------------------------------------------------------------- *)
FONTSET_SIZE == 80
MEMORY_SIZE == 4096
GFX_W == 64
GFX_H == 32
GFX_SIZE == GFX_W * GFX_H
\* static CHIP8_FONTSET: [u8; FONTSET_SIZE] = [0; FONTSET_SIZE]
CHIP8_FONTSET == [i \in 0..(FONTSET_SIZE - 1) |-> 0]
\* load address of a program, the literal 0x200 of e_new, e_load and e_reset
PROGRAM_START == 512
\* next_key: -2 is waiting, -1 is no key
KEY_WAITING == -2
KEY_NONE == -1

(* ---------------------------------------------------------------------- *)
(* Bounds of the exploration                                               *)
(* ---------------------------------------------------------------------- *)
\* how many times the host calls load on one object
MaxLoads == 1
\* programs are generated for the register fields 0..MaxReg
MaxReg == 1

VARIABLES
    opcode, memory, V, I, pc, gfx, delay_timer, sound_timer,
    stack, sp, key, next_key, draw_flag,      \* the fields of struct CHIP8
    stderr, stdout,                           \* what the last call printed
    panic,                                    \* "" or the panic that aborted a call
    overflow_checks, wide_index,              \* the build
    call, loads,                              \* the host's last call, and its loads so far
    old                                       \* the object as it was when that call began

vars == <<opcode, memory, V, I, pc, gfx, delay_timer, sound_timer, stack, sp,
          key, next_key, draw_flag, stderr, stdout, panic, overflow_checks,
          wide_index, call, loads, old>>

(* ---------------------------------------------------------------------- *)
(* Bit operations on naturals                                              *)
(* ---------------------------------------------------------------------- *)
RECURSIVE BitAnd(_, _)
BitAnd(a, b) ==
    IF a = 0 \/ b = 0 THEN 0
    ELSE (a % 2) * (b % 2) + 2 * BitAnd(a \div 2, b \div 2)

RECURSIVE BitOr(_, _)
BitOr(a, b) ==
    IF a = 0 THEN b ELSE IF b = 0 THEN a
    ELSE (IF a % 2 = 1 \/ b % 2 = 1 THEN 1 ELSE 0) + 2 * BitOr(a \div 2, b \div 2)

RECURSIVE BitXor(_, _)
BitXor(a, b) ==
    IF a = 0 THEN b ELSE IF b = 0 THEN a
    ELSE ((a + b) % 2) + 2 * BitXor(a \div 2, b \div 2)

(* ---------------------------------------------------------------------- *)
(* The arrays                                                              *)
(* ---------------------------------------------------------------------- *)
\* self.memory[a], for a < MEMORY_SIZE
MemRead(mem, a) == IF a \in DOMAIN mem THEN mem[a] ELSE 0

\* self.memory[a] = b, for a < MEMORY_SIZE
MemWrite(mem, a, b) ==
    [c \in (IF b = 0 THEN DOMAIN mem \ {a} ELSE DOMAIN mem \cup {a}) |->
        IF c = a THEN b ELSE mem[c]]

\* self.gfx[p], for p < GFX_SIZE
GfxRead(g, p) == IF p \in g THEN 1 ELSE 0

\* self.gfx[p] = b, for p < GFX_SIZE
GfxWrite(g, p, b) == IF b = 0 THEN g \ {p} ELSE g \cup {p}

Zero16 == [i \in 0..15 |-> 0]

(* ---------------------------------------------------------------------- *)
(* The object as a record, and its outcome                                 *)
(* ---------------------------------------------------------------------- *)
Self ==
    [opcode |-> opcode, memory |-> memory, V |-> V, I |-> I, pc |-> pc,
     gfx |-> gfx, delay_timer |-> delay_timer, sound_timer |-> sound_timer,
     stack |-> stack, sp |-> sp, key |-> key, next_key |-> next_key,
     draw_flag |-> draw_flag, stderr |-> stderr, stdout |-> stdout,
     panic |-> panic]

\* the state after a call that ended as m
Becomes(m) ==
    /\ opcode' = m.opcode /\ memory' = m.memory /\ V' = m.V /\ I' = m.I
    /\ pc' = m.pc /\ gfx' = m.gfx /\ delay_timer' = m.delay_timer
    /\ sound_timer' = m.sound_timer /\ stack' = m.stack /\ sp' = m.sp
    /\ key' = m.key /\ next_key' = m.next_key /\ draw_flag' = m.draw_flag
    /\ stderr' = m.stderr /\ stdout' = m.stdout /\ panic' = m.panic

\* a panic unwinds out of the call: the writes made so far stay
Panic(m, why) == [m EXCEPT !.panic = why]

\* eprintln!(...)
Eprintln(m, msg) == [m EXCEPT !.stderr = Append(m.stderr, msg)]

\* a call starts with nothing printed
Quiet(m) == [m EXCEPT !.stderr = <<>>, !.stdout = <<>>]

(* ---------------------------------------------------------------------- *)
(* Arithmetic as the build evaluates it                                    *)
(* ---------------------------------------------------------------------- *)
Ok(v) == [fault |-> "", val |-> v]
Fault(why) == [fault |-> why, val |-> 0]

\* a + b on w-bit unsigned integers
Add(a, b, w) ==
    IF a + b < 2 ^ w THEN Ok(a + b)
    ELSE IF overflow_checks THEN Fault("attempt to add with overflow")
    ELSE Ok((a + b) % (2 ^ w))

\* a - b on w-bit unsigned integers
Sub(a, b, w) ==
    IF a >= b THEN Ok(a - b)
    ELSE IF overflow_checks THEN Fault("attempt to subtract with overflow")
    ELSE Ok((a - b) % (2 ^ w))

\* a >> n on w-bit unsigned integers
Shr(a, n, w) ==
    IF n < w THEN Ok(a \div (2 ^ n))
    ELSE IF overflow_checks THEN Fault("attempt to shift right with overflow")
    ELSE Ok(a \div (2 ^ (n % w)))

\* (self.opcode & mask) >> n, the register-index expression
RegField(op, mask, n) ==
    IF wide_index THEN Shr(BitAnd(op, mask), n, 64) ELSE Shr(BitAnd(op, mask), n, 16)

\* (self.opcode & 0xF00) >> 16
RegX(m) == RegField(m.opcode, 3840, 16)

\* (self.opcode & 0xF0) >> 8
RegY(m) == RegField(m.opcode, 240, 8)

\* the fault of indexing an array of n cells at i
IndexFault(i, n) == IF i < n THEN "" ELSE "index out of bounds"

\* self.pc += k
AdvancePc(m, k) ==
    LET r == Add(m.pc, k, 16)
    IN  IF r.fault # "" THEN Panic(m, r.fault) ELSE [m EXCEPT !.pc = r.val]

(* ---------------------------------------------------------------------- *)
(* e_new and e_load                                                        *)
(* ---------------------------------------------------------------------- *)
e_new ==
    [opcode |-> 0,
     memory |-> [a \in {i \in 0..(FONTSET_SIZE - 1) : CHIP8_FONTSET[i] # 0} |->
                    CHIP8_FONTSET[a]],
     V |-> Zero16, I |-> 0, pc |-> PROGRAM_START, gfx |-> {},
     delay_timer |-> 0, sound_timer |-> 0, stack |-> Zero16, sp |-> 0,
     key |-> Zero16, next_key |-> KEY_NONE, draw_flag |-> FALSE,
     stderr |-> <<>>, stdout |-> <<>>, panic |-> ""]

\* The loop writes data[i] to memory[i + 0x200] for i = 0, 1, ...; the write
\* at the first i with i + 0x200 >= MEMORY_SIZE panics, the earlier ones stay.
e_load(m, data) ==
    LET room == MEMORY_SIZE - PROGRAM_START
        done == IF Len(data) <= room THEN Len(data) ELSE room
        written == PROGRAM_START..(PROGRAM_START + done - 1)
        mem == [a \in (DOMAIN m.memory \ written) \cup
                      {a \in written : data[a - PROGRAM_START + 1] # 0} |->
                   IF a \in written THEN data[a - PROGRAM_START + 1]
                   ELSE m.memory[a]]
        m1 == [m EXCEPT !.memory = mem]
    IN  IF Len(data) > room THEN Panic(m1, "index out of bounds") ELSE m1

(* ---------------------------------------------------------------------- *)
(* e_execute_op, one operator per arm                                      *)
(* ---------------------------------------------------------------------- *)
UnknownOpcode(m) == Eprintln(m, <<"Unknown opcode", m.opcode>>)

\* 0x00E0
op_00E0(m) == [m EXCEPT !.gfx = {}, !.draw_flag = TRUE]

\* 0x00EE without the check for the bottom of the stack
op_00EE_unchecked(m) ==
    IF m.sp = 0 THEN Panic(m, "index out of bounds")
    ELSE [m EXCEPT !.pc = m.stack[m.sp - 1], !.sp = m.sp - 1]

\* 0x00EE
op_00EE(m) ==
    IF m.sp = 0 THEN Eprintln(m, <<"Bottom of stack, cannot return! at", m.pc>>)
    ELSE [m EXCEPT !.pc = m.stack[m.sp - 1], !.sp = m.sp - 1]

\* 0x0 family
op_0(m) ==
    LET code_type == BitAnd(m.opcode, 255)
    IN  IF code_type = 224 THEN op_00E0(m)
        ELSE IF code_type = 238 THEN op_00EE(m)
        ELSE UnknownOpcode(m)

\* 0x1000
op_1nnn(m) == [m EXCEPT !.pc = BitAnd(m.opcode, 4095)]

\* 0x2000
op_2nnn(m) ==
    IF IndexFault(m.sp, 16) # "" THEN Panic(m, IndexFault(m.sp, 16))
    ELSE [m EXCEPT !.stack[m.sp] = m.pc, !.sp = m.sp + 1,
                   !.pc = BitAnd(m.opcode, 4095)]

\* the shape of the skip arms: pc += 4 if cond, else pc += 2
Skip(m, cond) == IF cond THEN AdvancePc(m, 4) ELSE AdvancePc(m, 2)

\* the fault met before an arm can use V[reg]: the shift, then the index
RegFault(r) == IF r.fault # "" THEN r.fault ELSE IndexFault(r.val, 16)

\* 0x3000
op_3xnn(m) ==
    LET reg == RegX(m)
    IN  IF RegFault(reg) # "" THEN Panic(m, RegFault(reg))
        ELSE Skip(m, m.V[reg.val] = BitAnd(m.opcode, 255))

\* 0x4000
op_4xnn(m) ==
    LET reg == RegX(m)
    IN  IF RegFault(reg) # "" THEN Panic(m, RegFault(reg))
        ELSE Skip(m, m.V[reg.val] # BitAnd(m.opcode, 255))

\* the fault met by an arm that computes reg_x and reg_y and then uses both
RegsFault(rx, ry) ==
    IF rx.fault # "" THEN rx.fault
    ELSE IF ry.fault # "" THEN ry.fault
    ELSE IF IndexFault(rx.val, 16) # "" THEN IndexFault(rx.val, 16)
    ELSE IndexFault(ry.val, 16)

\* 0x5000
op_5xy0(m) ==
    LET reg_x == RegX(m)
        reg_y == RegY(m)
    IN  IF RegsFault(reg_x, reg_y) # "" THEN Panic(m, RegsFault(reg_x, reg_y))
        ELSE Skip(m, m.V[reg_x.val] = m.V[reg_y.val])

\* 0x6000
op_6xnn(m) ==
    LET reg == RegX(m)
    IN  IF RegFault(reg) # "" THEN Panic(m, RegFault(reg))
        ELSE AdvancePc([m EXCEPT !.V[reg.val] = BitAnd(m.opcode, 255)], 2)

\* 0x7000
op_7xnn(m) ==
    LET reg == RegX(m)
        sum == Add(m.V[reg.val], BitAnd(m.opcode, 255), 8)
    IN  IF RegFault(reg) # "" THEN Panic(m, RegFault(reg))
        ELSE IF sum.fault # "" THEN Panic(m, sum.fault)
        ELSE AdvancePc([m EXCEPT !.V[reg.val] = sum.val], 2)

\* the arms of the 0x8000 family that index V; t is the low nibble
op_8xyN(m, t, x, y) ==
    LET vx == m.V[x]
        vy == m.V[y]
        sum == Add(vx, vy, 8)
        dif == Sub(vx, vy, 8)
        rev == Sub(vy, vx, 8)
        lsb == [m EXCEPT !.V[15] = BitAnd(vx, 1)]
        msb == [m EXCEPT !.V[15] = BitAnd(vx, 128)]
    IN  CASE t = 0 -> AdvancePc([m EXCEPT !.V[x] = vy], 2)
          [] t = 1 -> AdvancePc([m EXCEPT !.V[x] = BitOr(vx, vy)], 2)
          [] t = 2 -> AdvancePc([m EXCEPT !.V[x] = BitAnd(vx, vy)], 2)
          [] t = 3 -> AdvancePc([m EXCEPT !.V[x] = BitXor(vx, vy)], 2)
          [] t = 4 -> IF sum.fault # "" THEN Panic(m, sum.fault)
                      ELSE AdvancePc([m EXCEPT !.V[x] = sum.val], 2)
          [] t = 5 -> IF dif.fault # "" THEN Panic(m, dif.fault)
                      ELSE AdvancePc([m EXCEPT !.V[x] = dif.val], 2)
          [] t = 6 -> AdvancePc([lsb EXCEPT !.V[x] = lsb.V[x] \div 2], 2)
          [] t = 7 -> IF rev.fault # "" THEN Panic(m, rev.fault)
                      ELSE AdvancePc([m EXCEPT !.V[x] = rev.val], 2)
          [] t = 14 -> AdvancePc([msb EXCEPT !.V[x] = (msb.V[x] * 2) % 256], 2)

\* 0x8000
op_8xyN_family(m) ==
    LET code_type == BitAnd(m.opcode, 15)
        reg_x == RegX(m)
        reg_y == RegY(m)
    IN  IF reg_x.fault # "" THEN Panic(m, reg_x.fault)
        ELSE IF reg_y.fault # "" THEN Panic(m, reg_y.fault)
        ELSE IF code_type \notin (0..7) \cup {14} THEN UnknownOpcode(m)
        ELSE IF RegsFault(reg_x, reg_y) # "" THEN Panic(m, RegsFault(reg_x, reg_y))
        ELSE op_8xyN(m, code_type, reg_x.val, reg_y.val)

\* 0x9000
op_9xy0(m) ==
    LET reg_x == RegX(m)
        reg_y == RegY(m)
    IN  IF RegsFault(reg_x, reg_y) # "" THEN Panic(m, RegsFault(reg_x, reg_y))
        ELSE Skip(m, m.V[reg_x.val] # m.V[reg_y.val])

\* 0xA000
op_Annn(m) == AdvancePc([m EXCEPT !.I = BitAnd(m.opcode, 4095)], 2)

\* 0xB000
op_Bnnn(m) ==
    LET r == Add(m.V[0], BitAnd(m.opcode, 4095), 16)
    IN  IF r.fault # "" THEN Panic(m, r.fault) ELSE [m EXCEPT !.pc = r.val]

\* 0xC000; rnd is the byte rand::random::<u8>() returns
op_Cxnn(m, rnd) ==
    LET reg == RegX(m)
    IN  IF RegFault(reg) # "" THEN Panic(m, RegFault(reg))
        ELSE AdvancePc([m EXCEPT !.V[reg.val] =
                            BitAnd(BitAnd(rnd, m.opcode), 255)], 2)

\* The inner loop of 0xD000 from its step j on: r collects old pixel ^ sprite
\* bit, the pixel is set to the sprite bit, x loses its lowest bit.
RECURSIVE DrawRow(_, _, _, _, _)
DrawRow(g, pos_gfx, x, j, r) ==
    LET p == pos_gfx + 7 - j
    IN  IF j = 8 THEN [gfx |-> g, r |-> r, fault |-> ""]
        ELSE IF IndexFault(p, GFX_SIZE) # ""
             THEN [gfx |-> g, r |-> r, fault |-> IndexFault(p, GFX_SIZE)]
        ELSE DrawRow(GfxWrite(g, p, x % 2), pos_gfx, x \div 2, j + 1,
                     BitOr(r, BitXor(GfxRead(g, p), x % 2)))

\* The outer loop of 0xD000 from its row i on.
RECURSIVE DrawRows(_, _, _, _)
DrawRows(m, start_position, height, i) ==
    LET pos_gfx == start_position + (i * GFX_W)
        pos_mem == Add(m.I, i, 16)
        row == DrawRow(m.gfx, pos_gfx, MemRead(m.memory, pos_mem.val), 0, 0)
    IN  IF i = height THEN m
        ELSE IF pos_mem.fault # "" THEN Panic(m, pos_mem.fault)
        ELSE IF IndexFault(pos_mem.val, MEMORY_SIZE) # ""
             THEN Panic(m, IndexFault(pos_mem.val, MEMORY_SIZE))
        ELSE IF row.fault # "" THEN Panic([m EXCEPT !.gfx = row.gfx], row.fault)
        ELSE DrawRows([m EXCEPT !.gfx = row.gfx,
                                !.V[15] = BitOr(m.V[15], row.r)],
                      start_position, height, i + 1)

\* 0xD000
op_Dxyn(m) ==
    LET reg_x == RegX(m)
        reg_y == RegY(m)
        height == BitAnd(m.opcode, 15)
        start_position == m.V[reg_y.val] * GFX_W + m.V[reg_x.val]
        drawn == DrawRows([m EXCEPT !.V[15] = 0], start_position, height, 0)
    IN  IF RegsFault(reg_x, reg_y) # "" THEN Panic(m, RegsFault(reg_x, reg_y))
        ELSE IF drawn.panic # "" THEN drawn
        ELSE AdvancePc(drawn, 2)

\* 0xE000
op_Exnn(m) ==
    LET code_type == BitAnd(m.opcode, 255)
        reg == RegX(m)
        pressed == m.key[m.V[reg.val]] # 0
    IN  IF RegFault(reg) # "" THEN Panic(m, RegFault(reg))
        ELSE IF IndexFault(m.V[reg.val], 16) # ""
             THEN Panic(m, IndexFault(m.V[reg.val], 16))
        ELSE IF code_type = 158 THEN Skip(m, pressed)
        ELSE IF code_type = 161 THEN Skip(m, ~pressed)
        ELSE UnknownOpcode(m)

\* 0xFx33: three writes, each with its own index check
op_Fx33(m, reg) ==
    LET v == m.V[reg]
        a1 == Add(m.I, 1, 16)
        a2 == Add(m.I, 2, 16)
        m1 == [m EXCEPT !.memory = MemWrite(m.memory, m.I, v \div 100)]
        m2 == [m1 EXCEPT !.memory = MemWrite(m1.memory, a1.val, (v \div 10) % 10)]
        m3 == [m2 EXCEPT !.memory = MemWrite(m2.memory, a2.val, v % 10)]
    IN  IF IndexFault(m.I, MEMORY_SIZE) # "" THEN Panic(m, IndexFault(m.I, MEMORY_SIZE))
        ELSE IF a1.fault # "" THEN Panic(m1, a1.fault)
        ELSE IF IndexFault(a1.val, MEMORY_SIZE) # ""
             THEN Panic(m1, IndexFault(a1.val, MEMORY_SIZE))
        ELSE IF a2.fault # "" THEN Panic(m2, a2.fault)
        ELSE IF IndexFault(a2.val, MEMORY_SIZE) # ""
             THEN Panic(m2, IndexFault(a2.val, MEMORY_SIZE))
        ELSE AdvancePc(m3, 2)

\* the fault of taking the slice [I .. I + reg + 1] of memory and [.. reg + 1] of V
SliceFault(m, reg) ==
    LET e1 == Add(m.I, reg, 16)
        e2 == Add(e1.val, 1, 16)
    IN  IF e1.fault # "" THEN e1.fault
        ELSE IF e2.fault # "" THEN e2.fault
        ELSE IF e2.val > MEMORY_SIZE \/ reg + 1 > 16
             THEN "range end index out of range"
        ELSE ""

\* 0xFx55
op_Fx55(m, reg) ==
    LET cells == m.I..(m.I + reg)
        mem == [a \in (DOMAIN m.memory \ cells) \cup
                      {a \in cells : m.V[a - m.I] # 0} |->
                   IF a \in cells THEN m.V[a - m.I] ELSE m.memory[a]]
    IN  IF SliceFault(m, reg) # "" THEN Panic(m, SliceFault(m, reg))
        ELSE AdvancePc([m EXCEPT !.memory = mem], 2)

\* 0xFx65
op_Fx65(m, reg) ==
    IF SliceFault(m, reg) # "" THEN Panic(m, SliceFault(m, reg))
    ELSE AdvancePc([m EXCEPT !.V = [k \in 0..15 |->
                        IF k <= reg THEN MemRead(m.memory, m.I + k) ELSE m.V[k]]], 2)

\* the arms of the 0xF000 family that index V[reg]
op_FxNN(m, code_type, reg) ==
    LET sum == Add(m.I, m.V[reg], 16)
    IN  CASE code_type = 7 -> AdvancePc([m EXCEPT !.V[reg] = m.delay_timer], 2)
          [] code_type = 21 -> AdvancePc([m EXCEPT !.delay_timer = m.V[reg]], 2)
          [] code_type = 24 -> AdvancePc([m EXCEPT !.sound_timer = m.V[reg]], 2)
          [] code_type = 30 -> IF sum.fault # "" THEN Panic(m, sum.fault)
                               ELSE AdvancePc([m EXCEPT !.I = sum.val], 2)
          [] code_type = 41 -> AdvancePc([m EXCEPT !.I = m.V[reg]], 2)
          [] code_type = 51 -> op_Fx33(m, reg)

\* 0xF000
op_Fxnn_family(m) ==
    LET code_type == BitAnd(m.opcode, 255)
        reg == RegX(m)
    IN  IF reg.fault # "" THEN Panic(m, reg.fault)
        ELSE IF code_type = 10 THEN [m EXCEPT !.next_key = KEY_WAITING]
        ELSE IF code_type \in {85, 101}
             THEN (IF code_type = 85 THEN op_Fx55(m, reg.val) ELSE op_Fx65(m, reg.val))
        ELSE IF code_type \notin {7, 21, 24, 30, 41, 51} THEN UnknownOpcode(m)
        ELSE IF IndexFault(reg.val, 16) # "" THEN Panic(m, IndexFault(reg.val, 16))
        ELSE op_FxNN(m, code_type, reg.val)

\* e_execute_op: the match on self.opcode & 0xF000
e_execute_op(m, rnd) ==
    LET code_type == BitAnd(m.opcode, 61440) \div 4096
    IN  CASE code_type = 0 -> op_0(m)
          [] code_type = 1 -> op_1nnn(m)
          [] code_type = 2 -> op_2nnn(m)
          [] code_type = 3 -> op_3xnn(m)
          [] code_type = 4 -> op_4xnn(m)
          [] code_type = 5 -> op_5xy0(m)
          [] code_type = 6 -> op_6xnn(m)
          [] code_type = 7 -> op_7xnn(m)
          [] code_type = 8 -> op_8xyN_family(m)
          [] code_type = 9 -> op_9xy0(m)
          [] code_type = 10 -> op_Annn(m)
          [] code_type = 11 -> op_Bnnn(m)
          [] code_type = 12 -> op_Cxnn(m, rnd)
          [] code_type = 13 -> op_Dxyn(m)
          [] code_type = 14 -> op_Exnn(m)
          [] code_type = 15 -> op_Fxnn_family(m)

(* ---------------------------------------------------------------------- *)
(* e_update and the other operations                                       *)
(* ---------------------------------------------------------------------- *)
\* the head of e_update: the pending key
update_key(m) ==
    IF m.next_key = KEY_WAITING
    THEN Panic(m, "not yet implemented: Block and get next key")
    ELSE IF m.next_key >= 0
    THEN (IF IndexFault(m.next_key, 16) # "" THEN Panic(m, IndexFault(m.next_key, 16))
          ELSE [m EXCEPT !.key[m.next_key] = 1])
    ELSE m

\* self.opcode = self.memory[self.pc] << 8 | self.memory[self.pc + 1]
fetch(m) ==
    LET next == Add(m.pc, 1, 16)
    IN  IF IndexFault(m.pc, MEMORY_SIZE) # "" THEN Panic(m, IndexFault(m.pc, MEMORY_SIZE))
        ELSE IF next.fault # "" THEN Panic(m, next.fault)
        ELSE IF IndexFault(next.val, MEMORY_SIZE) # ""
             THEN Panic(m, IndexFault(next.val, MEMORY_SIZE))
        ELSE [m EXCEPT !.opcode = BitOr(MemRead(m.memory, m.pc) * 256,
                                        MemRead(m.memory, next.val))]

\* update_timers with the beep printed on every tick of a running sound timer
update_timers_beep_while_running(m) ==
    LET m1 == IF m.delay_timer > 0
              THEN [m EXCEPT !.delay_timer = m.delay_timer - 1] ELSE m
    IN  IF m1.sound_timer > 0
        THEN [m1 EXCEPT !.stdout = Append(m1.stdout, "BEEP!"),
                        !.sound_timer = m1.sound_timer - 1]
        ELSE m1

\* the tail of e_update: both timers count down, the sound timer beeps at 1
update_timers(m) ==
    LET m1 == IF m.delay_timer > 0
              THEN [m EXCEPT !.delay_timer = m.delay_timer - 1] ELSE m
        m2 == IF m1.sound_timer = 1
              THEN [m1 EXCEPT !.stdout = Append(m1.stdout, "BEEP!")] ELSE m1
    IN  IF m1.sound_timer > 0
        THEN [m2 EXCEPT !.sound_timer = m2.sound_timer - 1] ELSE m1

e_update(m, rnd) ==
    LET m1 == update_key(m)
        m2 == fetch(m1)
        m3 == e_execute_op(m2, rnd)
    IN  IF m1.panic # "" THEN m1
        ELSE IF m2.panic # "" THEN m2
        ELSE IF m3.panic # "" THEN m3
        ELSE update_timers(m3)

e_set_metadata(m) == m

e_draw(m) == IF ~m.draw_flag THEN m ELSE Panic(m, "not yet implemented")

e_set_input(m) == Panic(m, "not yet implemented")

e_reset(m) ==
    [m EXCEPT !.memory = [a \in {} |-> 0], !.pc = PROGRAM_START, !.stack = Zero16,
              !.V = Zero16, !.key = Zero16, !.next_key = KEY_NONE, !.sp = 0]

(* ---------------------------------------------------------------------- *)
(* The host's inputs: the programs it loads, the bytes rand returns        *)
(* ---------------------------------------------------------------------- *)
\* the two bytes of an instruction word, big-endian
Word(w) == <<w \div 256, w % 256>>

RECURSIVE Words(_)
Words(ws) == IF ws = <<>> THEN <<>> ELSE Word(Head(ws)) \o Words(Tail(ws))

\* the instruction word with family f, register field x and low byte nn
Op(f, x, nn) == f * 4096 + x * 256 + nn

Regs == 0..MaxReg

\* A program is named by what it does, a register field x and a byte nn.
Prog(p, x, nn) == [prog |-> p, x |-> x, nn |-> nn]
NoRom == Prog("", 0, 0)

Roms ==
    {Prog("set", x, nn) : x \in Regs, nn \in {5, 255}}
    \cup {Prog("e2e", 0, 5)}
    \cup {Prog(p, 0, 0) : p \in {"call", "nested", "recurse", "big"}}
    \cup {Prog("timers", x, nn) : x \in Regs, nn \in {1, 3}}
    \cup {Prog("key_wait", x, 0) : x \in Regs}
    \cup {Prog("draw", x, nn) : x \in Regs, nn \in {0, 129}}
    \cup {Prog("bcd", x, 157) : x \in Regs}
    \cup {Prog("unknown", 1, f) : f \in {0, 8, 14, 15}}
    \cup {Prog("jump_end", 15, 255)}
    \cup {Prog("cls", 0, 224)}
    \cup {Prog("skips", x, 5) : x \in Regs}
    \cup {Prog("ret", 0, 238)}
    \cup {Prog("alu", 0, 255)}
    \cup {Prog("readback", 0, 3)}

\* the bytes of a program
Rom(d) ==
    CASE d.prog = "set" -> Words(<<Op(6, d.x, d.nn)>>)
      [] d.prog = "e2e" -> <<96, 5, 162, 10>>
      \* 0x200: call 0x204; 0x202: jump 0x202; 0x204: return
      [] d.prog = "call" -> Words(<<Op(2, 2, 4), Op(1, 2, 2), Op(0, 0, 238)>>)
      \* 0x200: call 0x204; 0x202: jump 0x202; 0x204: call 0x208;
      \* 0x206: return; 0x208: return
      [] d.prog = "nested" ->
            Words(<<Op(2, 2, 4), Op(1, 2, 2), Op(2, 2, 8), Op(0, 0, 238),
                    Op(0, 0, 238)>>)
      \* 0x200: call 0x200
      [] d.prog = "recurse" -> Words(<<Op(2, 2, 0)>>)
      \* one byte more than fits, nonzero at both ends of what fits
      [] d.prog = "big" ->
            [i \in 1..(MEMORY_SIZE - PROGRAM_START + 1) |->
                IF i = 1 \/ i >= MEMORY_SIZE - PROGRAM_START THEN 255 ELSE 0]
      \* Vx = nn; delay = Vx; sound = Vx; 0x206: jump 0x206
      [] d.prog = "timers" ->
            Words(<<Op(6, d.x, d.nn), Op(15, d.x, 21), Op(15, d.x, 24),
                    Op(1, 2, 6)>>)
      [] d.prog = "key_wait" -> Words(<<Op(15, d.x, 10)>>)
      \* I = 0x208; draw 2 rows at (Vx, V0) twice; 0x206: jump 0x206;
      \* 0x208: the sprite, two rows of nn
      [] d.prog = "draw" ->
            Words(<<Op(10, 2, 8), Op(13, d.x, 2), Op(13, d.x, 2), Op(1, 2, 6)>>)
            \o <<d.nn, d.nn>>
      \* Vx = nn; I = 0x300; BCD of Vx; 0x206: jump 0x206
      [] d.prog = "bcd" ->
            Words(<<Op(6, d.x, d.nn), Op(10, 3, 0), Op(15, d.x, 51), Op(1, 2, 6)>>)
      \* a word no arm of its family nn matches: 0xFF, 8xFF, ExFF, FxFF
      [] d.prog = "unknown" -> Words(<<Op(d.nn, d.x, 255)>>)
      \* BFFF: jump to V0 + 0xFFF, the last byte of memory
      [] d.prog = "jump_end" -> Words(<<Op(11, d.x, d.nn)>>)
      \* 00E0: clear the screen
      [] d.prog = "cls" -> Words(<<Op(0, d.x, d.nn)>>)
      \* Vx = nn; Vx += 1; Vx = nn; then the 8xx? family on Vx and Vx: add,
      \* shift left, shift right, subtract, reverse subtract, or, and, xor,
      \* assign; Vx = nn; I += Vx; I = Vx; store and load V0..Vx at I; Vx =
      \* delay timer; Vx = random; 0x226: jump 0x226
      [] d.prog = "alu" ->
            Words(<<Op(6, d.x, d.nn), Op(7, d.x, 1), Op(6, d.x, d.nn),
                    Op(8, d.x, 16 * d.x + 4), Op(8, d.x, 16 * d.x + 14),
                    Op(8, d.x, 16 * d.x + 6), Op(8, d.x, 16 * d.x + 5),
                    Op(8, d.x, 16 * d.x + 7), Op(8, d.x, 16 * d.x + 1),
                    Op(8, d.x, 16 * d.x + 2), Op(8, d.x, 16 * d.x + 3),
                    Op(8, d.x, 16 * d.x), Op(6, d.x, d.nn), Op(15, d.x, 30),
                    Op(15, d.x, 41), Op(15, d.x, 85), Op(15, d.x, 101),
                    Op(15, d.x, 7), Op(12, d.x, d.nn), Op(1, 2, 38)>>)
      \* Vx = nn; delay = Vx; Vx = delay; 0x206: jump 0x206
      [] d.prog = "readback" ->
            Words(<<Op(6, d.x, d.nn), Op(15, d.x, 21), Op(15, d.x, 7),
                    Op(1, 2, 6)>>)
      \* 00EE: return, with nothing on the stack
      [] d.prog = "ret" -> Words(<<Op(0, d.x, d.nn)>>)
      \* Vx = nn; then the six skips on Vx (y = 0), each landing on the next
      \* or the one after; 0x20E: jump 0x20E; 0x210: jump 0x210
      [] d.prog = "skips" ->
            Words(<<Op(6, d.x, d.nn), Op(3, d.x, d.nn), Op(4, d.x, d.nn),
                    Op(5, d.x, 0), Op(9, d.x, 0), Op(14, d.x, 158),
                    Op(14, d.x, 161), Op(1, 2, 14), Op(1, 2, 16)>>)

RandomBytes == {0, 255}

(* ---------------------------------------------------------------------- *)
(* The state machine                                                       *)
(* ---------------------------------------------------------------------- *)
\* CHIP8::new()
Init ==
    /\ opcode = e_new.opcode /\ memory = e_new.memory /\ V = e_new.V
    /\ I = e_new.I /\ pc = e_new.pc /\ gfx = e_new.gfx
    /\ delay_timer = e_new.delay_timer /\ sound_timer = e_new.sound_timer
    /\ stack = e_new.stack /\ sp = e_new.sp /\ key = e_new.key
    /\ next_key = e_new.next_key /\ draw_flag = e_new.draw_flag
    /\ stderr = e_new.stderr /\ stdout = e_new.stdout /\ panic = e_new.panic
    /\ overflow_checks \in BOOLEAN
    /\ wide_index \in BOOLEAN
    /\ call = [op |-> "new", rom |-> NoRom]
    /\ loads = 0
    /\ old = e_new

\* a call on the object: it is alive, and the build does not change
Called(op, d) ==
    /\ panic = ""
    /\ call' = [op |-> op, rom |-> d]
    /\ old' = Self
    /\ UNCHANGED <<overflow_checks, wide_index>>

\* CHIP8::load(data)
Load(d) ==
    /\ loads < MaxLoads
    /\ Called("load", d)
    /\ loads' = loads + 1
    /\ Becomes(e_load(Quiet(Self), Rom(d)))

\* CHIP8::update()
Update(rnd) ==
    /\ Called("update", NoRom)
    /\ Becomes(e_update(Quiet(Self), rnd))
    /\ UNCHANGED loads

\* CHIP8::draw()
Draw ==
    /\ Called("draw", NoRom)
    /\ Becomes(e_draw(Quiet(Self)))
    /\ UNCHANGED loads

\* CHIP8::set_input()
SetInput ==
    /\ Called("set_input", NoRom)
    /\ Becomes(e_set_input(Quiet(Self)))
    /\ UNCHANGED loads

\* CHIP8::set_metadata(metadata)
SetMetadata ==
    /\ Called("set_metadata", NoRom)
    /\ Becomes(e_set_metadata(Quiet(Self)))
    /\ UNCHANGED loads

\* CHIP8::reset()
Reset ==
    /\ Called("reset", NoRom)
    /\ Becomes(e_reset(Quiet(Self)))
    /\ UNCHANGED loads

Next ==
    \/ \E d \in Roms : Load(d)
    \/ \E rnd \in RandomBytes : Update(rnd)
    \/ Draw
    \/ SetInput
    \/ SetMetadata
    \/ Reset

Spec == Init /\ [][Next]_vars

(* ---------------------------------------------------------------------- *)
(* Vocabulary of the properties                                            *)
(* ---------------------------------------------------------------------- *)
\* The operand fields of an instruction word, as the opcode table gives
\* them: x is bits 8..11, y bits 4..7, n bits 0..3, nn bits 0..7, nnn 0..11.
Family(w) == w \div 4096
FieldX(w) == (w \div 256) % 16
FieldY(w) == (w \div 16) % 16
FieldN(w) == w % 16
FieldNN(w) == w % 256
FieldNNN(w) == w % 4096

\* the big-endian word at address a of m's memory
WordAt(m, a) == MemRead(m.memory, a) * 256 + MemRead(m.memory, a + 1)

\* m is about to fetch and execute a word: alive, not waiting, pc in range
Ready(m) == m.panic = "" /\ m.next_key # KEY_WAITING /\ m.pc + 1 < MEMORY_SIZE

\* this step is a step() call that fetches and executes a word
Fetching == call'.op = "update" /\ Ready(Self)

\* the word such a step fetches
Fetched == WordAt(Self, pc)

\* the call before this one was a step() call that fetched a word
HadFetched == call.op = "update" /\ Ready(old)

\* the word that call fetched
LastFetched == WordAt(old, old.pc)

(* ---------------------------------------------------------------------- *)
(* C1                                                                      *)
(* ---------------------------------------------------------------------- *)
\* C1: for every register index r and byte nn, one step that executes 6rnn
\* leaves V[r] = nn, leaves every other register unchanged, and advances pc
\* by exactly 2.
C1_SetRegister ==
    [][(Fetching /\ Family(Fetched) = 6) =>
          /\ panic' = ""
          /\ V' = [V EXCEPT ![FieldX(Fetched)] = FieldNN(Fetched)]
          /\ pc' = pc + 2]_vars

(* ---------------------------------------------------------------------- *)
(* C2                                                                      *)
(* ---------------------------------------------------------------------- *)
\* the object right after create(): nothing loaded, nothing run
C2_Created(m) ==
    /\ m.panic = "" /\ DOMAIN m.memory = {} /\ m.V = Zero16 /\ m.I = 0
    /\ m.pc = PROGRAM_START /\ m.sp = 0 /\ m.next_key = KEY_NONE
    /\ m.delay_timer = 0 /\ m.sound_timer = 0

\* memory holding 60 05 A2 0A at 0x200.. and nothing else
C2_Image == [a \in 512..515 |-> <<96, 5, 162, 10>>[a - 511]]

\* the state the claim gives after n steps of the loaded program
C2_After(m, n) ==
    /\ m.panic = "" /\ m.memory = C2_Image /\ m.sp = 0 /\ m.next_key = KEY_NONE
    /\ m.delay_timer = 0 /\ m.sound_timer = 0
    /\ m.V = (IF n >= 1 THEN [Zero16 EXCEPT ![0] = 5] ELSE Zero16)
    /\ m.I = (IF n >= 2 THEN 522 ELSE 0)
    /\ m.pc = PROGRAM_START + 2 * n

\* C2: after create(), load([0x60, 0x05, 0xA2, 0x0A]) and exactly two step()
\* calls, V[0] = 5, I = 0x20A and pc = 0x204: the load puts the bytes at
\* 0x200.., the first step executes 6005 and the second A20A.
C2_EndToEnd ==
    [][/\ (C2_Created(Self) /\ call'.op = "load" /\ call'.rom = Prog("e2e", 0, 5))
              => C2_After(Self', 0)
       /\ (C2_After(Self, 0) /\ call'.op = "update") => C2_After(Self', 1)
       /\ (C2_After(Self, 1) /\ call'.op = "update") => C2_After(Self', 2)]_vars

(* ---------------------------------------------------------------------- *)
(* C3                                                                      *)
(* ---------------------------------------------------------------------- *)
\* C3: a step that executes 2nnn at address p with stack depth d < 16,
\* followed by a step that executes 00EE at nnn, restores pc to p + 2 and
\* the stack pointer to d.
C3_CallReturn ==
    [][(/\ HadFetched /\ Family(LastFetched) = 2 /\ old.sp < 16
        /\ Fetching /\ pc = FieldNNN(LastFetched) /\ Fetched = 238)
       => (panic' = "" /\ pc' = old.pc + 2 /\ sp' = old.sp)]_vars

(* ---------------------------------------------------------------------- *)
(* C4                                                                      *)
(* ---------------------------------------------------------------------- *)
\* C4: with 16 return addresses on the stack, a step that executes 2nnn
\* reports a stack-overflow error instead of aborting, and leaves the 16
\* entries and the stack pointer unchanged; the stack pointer is in 0..16
\* after every step.
C4_StackOverflow ==
    [][/\ (Fetching /\ Family(Fetched) = 2 /\ sp = 16)
          => (panic' = "" /\ stderr' # <<>> /\ stack' = stack /\ sp' = sp)
       /\ sp' \in 0..16]_vars

(* ---------------------------------------------------------------------- *)
(* C5                                                                      *)
(* ---------------------------------------------------------------------- *)
\* one tick of a timer that holds t
Ticked(t) == IF t > 0 THEN t - 1 ELSE 0

\* The values the tick of this step can find in a timer: what the timer
\* held before the step, or, when the step executes the instruction that
\* assigns the timer (low byte nn), the register value just assigned.
BeforeTick(timer, nn) ==
    IF Family(opcode') = 15 /\ FieldNN(opcode') = nn
    THEN {V[r] : r \in 0..15} ELSE {timer}

\* C5: the timer tick of a completed step decrements the delay timer by
\* exactly 1 if it is nonzero and leaves it at 0 otherwise, does the same to
\* the sound timer, and prints the beep iff the sound timer goes from 1 to 0
\* on that tick.
C5_TimerTick ==
    [][(call'.op = "update" /\ panic' = "") =>
          \E d \in BeforeTick(delay_timer, 21), s \in BeforeTick(sound_timer, 24) :
              /\ delay_timer' = Ticked(d)
              /\ sound_timer' = Ticked(s)
              /\ stdout' = (IF s = 1 THEN <<"BEEP!">> ELSE <<>>)]_vars

\* a step whose tick took the sound timer from 1 to 0 and beeped, the delay
\* timer having run out before it
C5_Witness ==
    /\ call.op = "update" /\ panic = ""
    /\ old.sound_timer = 1 /\ sound_timer = 0 /\ stdout = <<"BEEP!">>
    /\ old.delay_timer = 0 /\ delay_timer = 0

(* ---------------------------------------------------------------------- *)
(* C6                                                                      *)
(* ---------------------------------------------------------------------- *)
\* the object is in the key-wait that Fx0A started
Waiting == panic = "" /\ next_key = KEY_WAITING

\* C6: while the key-wait that Fx0A started is pending, a step() call is a
\* no-op that leaves pc and V unchanged; a key press reported through the
\* input operation puts the pressed key's index k into V[x], advances pc by
\* 2 past the Fx0A instruction and ends the wait.
C6_KeyWait ==
    [][/\ (Waiting /\ call'.op = "update")
          => (panic' = "" /\ pc' = pc /\ V' = V)
       /\ (Waiting /\ call'.op = "set_input")
          => \E k \in 0..15 :
                /\ panic' = ""
                /\ V' = [V EXCEPT ![FieldX(WordAt(Self, pc))] = k]
                /\ pc' = pc + 2
                /\ next_key' # KEY_WAITING]_vars

(* ---------------------------------------------------------------------- *)
(* C7 and C8                                                               *)
(* ---------------------------------------------------------------------- *)
\* The cells of the framebuffer where the sprite that the draw word w names
\* in m has a 1: row i of the sprite is memory[I + i], its bit 7 - c goes to
\* column V[x] + c of line V[y] + i.
SpriteCells(m, w) ==
    {(m.V[FieldY(w)] + i) * GFX_W + m.V[FieldX(w)] + c :
        <<i, c>> \in {rc \in (0..(FieldN(w) - 1)) \X (0..7) :
            (MemRead(m.memory, m.I + rc[1]) \div (2 ^ (7 - rc[2]))) % 2 = 1}}

\* the draw word w keeps m's sprite inside the screen and inside memory
OnScreen(m, w) ==
    /\ m.V[FieldX(w)] + 7 < GFX_W
    /\ m.V[FieldY(w)] + FieldN(w) <= GFX_H
    /\ m.I + FieldN(w) <= MEMORY_SIZE

\* C7: every Dxyn draw makes each affected pixel (old pixel XOR sprite bit)
\* and sets VF to 1 iff a pixel that was 1 before the draw is 0 after it, to
\* 0 otherwise; so a draw onto a blank region never sets VF.
C7_DrawXor ==
    [][(Fetching /\ Family(Fetched) = 13 /\ OnScreen(Self, Fetched)) =>
          LET cells == SpriteCells(Self, Fetched)
          IN  /\ panic' = ""
              /\ gfx' = (gfx \ cells) \cup (cells \ gfx)
              /\ V'[15] = (IF gfx \ gfx' # {} THEN 1 ELSE 0)]_vars

\* C8: the same sprite drawn at the same position twice in a row (same word,
\* I, V[x], V[y], memory unchanged) restores the framebuffer to what it was
\* before the first draw, and when that was blank the second draw sets VF
\* to 1 iff the sprite has a set bit.
C8_DrawTwice ==
    [][(/\ HadFetched /\ Family(LastFetched) = 13 /\ OnScreen(old, LastFetched)
        /\ Fetching /\ Fetched = LastFetched
        /\ I = old.I /\ memory = old.memory
        /\ V[FieldX(Fetched)] = old.V[FieldX(Fetched)]
        /\ V[FieldY(Fetched)] = old.V[FieldY(Fetched)])
       => /\ panic' = ""
          /\ gfx' = old.gfx
          /\ old.gfx = {} =>
                V'[15] = (IF SpriteCells(old, Fetched) # {} THEN 1 ELSE 0)]_vars

(* ---------------------------------------------------------------------- *)
(* C9                                                                      *)
(* ---------------------------------------------------------------------- *)
\* C9: for every register x and every value v of V[x], a step that executes
\* Fx33 writes v / 100 to memory[I], (v / 10) mod 10 to memory[I + 1] and
\* v mod 10 to memory[I + 2], changes no other memory cell, no register and
\* not I, and advances pc by 2.
C9_Bcd ==
    [][(/\ Fetching /\ Family(Fetched) = 15 /\ FieldNN(Fetched) = 51
        /\ I + 2 < MEMORY_SIZE)
       => LET v == V[FieldX(Fetched)]
          IN  /\ panic' = ""
              /\ \A a \in 0..(MEMORY_SIZE - 1) :
                    MemRead(memory', a) =
                        IF a = I THEN v \div 100
                        ELSE IF a = I + 1 THEN (v \div 10) % 10
                        ELSE IF a = I + 2 THEN v % 10
                        ELSE MemRead(memory, a)
              /\ V' = V /\ I' = I /\ pc' = pc + 2]_vars

(* ---------------------------------------------------------------------- *)
(* C10                                                                     *)
(* ---------------------------------------------------------------------- *)
\* C10: load of more than 4096 - 512 bytes fails and leaves every byte of
\* memory and all other machine state unchanged; load of at most that many
\* bytes succeeds, copies byte i to memory[0x200 + i] and leaves the rest of
\* memory unchanged.
C10_Load ==
    [][call'.op = "load" =>
          LET data == Rom(call'.rom)
          IN  IF Len(data) > 4096 - 512
              THEN /\ memory' = memory
                   /\ <<V, I, pc, gfx, delay_timer, sound_timer, stack, sp, key,
                        next_key, draw_flag>>' =
                      <<V, I, pc, gfx, delay_timer, sound_timer, stack, sp, key,
                        next_key, draw_flag>>
              ELSE /\ panic' = ""
                   /\ \A a \in 0..(MEMORY_SIZE - 1) :
                         MemRead(memory', a) =
                             IF a \in 512..(511 + Len(data)) THEN data[a - 511]
                             ELSE MemRead(memory, a)]_vars

(* ---------------------------------------------------------------------- *)
(* C11                                                                     *)
(* ---------------------------------------------------------------------- *)
\* the words the opcode table does not define
Unrecognized(w) ==
    \/ Family(w) = 0 /\ w \notin {224, 238}
    \/ Family(w) = 8 /\ FieldN(w) \notin (0..7) \cup {14}
    \/ Family(w) = 14 /\ FieldNN(w) \notin {158, 161}
    \/ Family(w) = 15 /\ FieldNN(w) \notin {7, 10, 21, 24, 30, 41, 51, 85, 101}

\* some message of the stream out carries every value of vals as an argument
Reports(out, vals) ==
    \E i \in DOMAIN out :
        \A v \in vals : \E k \in 2..Len(out[i]) : out[i][k] = v

\* C11: a step that fetches an unrecognized opcode reports an error that
\* identifies the opcode and the pc, and does not advance: pc, the
\* registers, I, the stack, memory and the framebuffer are unchanged.
C11_UnknownOpcode ==
    [][(Fetching /\ Unrecognized(Fetched)) =>
          /\ panic' = ""
          /\ Reports(stderr', {Fetched, pc})
          /\ <<pc, V, I, stack, sp, memory, gfx>>' = <<pc, V, I, stack, sp, memory, gfx>>]_vars

(* ---------------------------------------------------------------------- *)
(* C12                                                                     *)
(* ---------------------------------------------------------------------- *)
\* C12: from any reachable state reset() yields the post-create state: pc is
\* 0x200, the 16 registers, I, the stack, the stack pointer, both timers and
\* the key latches are zero, no key-wait is pending, and the font area of
\* memory is what create() put there.
C12_Reset ==
    [][call'.op = "reset" =>
          /\ panic' = ""
          /\ pc' = 512 /\ V' = Zero16 /\ I' = 0 /\ stack' = Zero16 /\ sp' = 0
          /\ delay_timer' = 0 /\ sound_timer' = 0
          /\ key' = Zero16 /\ next_key' = KEY_NONE
          /\ \A a \in 0..(FONTSET_SIZE - 1) :
                MemRead(memory', a) = MemRead(e_new.memory, a)]_vars

(* ---------------------------------------------------------------------- *)
(* C13                                                                     *)
(* ---------------------------------------------------------------------- *)
\* the operands of the word w, executed in m, name a cell outside memory,
\* the stack, the key latches or the framebuffer
OutOfRange(m, w) ==
    \/ Family(w) = 2 /\ m.sp >= 16
    \/ /\ Family(w) = 13 /\ FieldN(w) > 0
       /\ \/ m.I + FieldN(w) > MEMORY_SIZE
          \/ (m.V[FieldY(w)] + FieldN(w) - 1) * GFX_W + m.V[FieldX(w)] + 7 >= GFX_SIZE
    \/ Family(w) = 14 /\ FieldNN(w) \in {158, 161} /\ m.V[FieldX(w)] > 15
    \/ Family(w) = 15 /\ FieldNN(w) = 51 /\ m.I + 2 >= MEMORY_SIZE
    \/ Family(w) = 15 /\ FieldNN(w) \in {85, 101} /\ m.I + FieldX(w) >= MEMORY_SIZE

\* C13: no step performs an out-of-range access to memory, the stack, the
\* key latches or the framebuffer: a fetch at pc >= 4095, or an instruction
\* whose operands imply such an access, is reported as an error and the call
\* does not panic.
C13_InRange ==
    [][/\ (/\ call'.op = "update" /\ panic = "" /\ next_key # KEY_WAITING
           /\ pc + 1 >= MEMORY_SIZE)
          => (panic' = "" /\ stderr' # <<>>)
       /\ (Fetching /\ OutOfRange(Self, Fetched))
          => (panic' = "" /\ stderr' # <<>>)]_vars

(* ---------------------------------------------------------------------- *)
(* C14                                                                     *)
(* ---------------------------------------------------------------------- *)
\* the words that set pc themselves: the jumps 1nnn and Bnnn, the call, the
\* return, the conditional skips, and the key-wait Fx0A
ControlFlow(w) ==
    \/ Family(w) \in {1, 2, 11}
    \/ w = 238
    \/ Family(w) \in {3, 4, 5, 9}
    \/ Family(w) = 14 /\ FieldNN(w) \in {158, 161}
    \/ Family(w) = 15 /\ FieldNN(w) = 10

\* C14: every successfully executed instruction that is not a jump, call,
\* return, conditional skip or key-wait advances pc by exactly 2 in its
\* step, 00E0 included.
C14_AdvancePc ==
    [][(/\ Fetching /\ ~Unrecognized(Fetched) /\ ~ControlFlow(Fetched)
        /\ panic' = "")
       => pc' = pc + 2]_vars

(* ---------------------------------------------------------------------- *)
(* C15                                                                     *)
(* ---------------------------------------------------------------------- *)
\* the conditional skips of the opcode table
IsSkip(w) ==
    \/ Family(w) \in {3, 4}
    \/ Family(w) \in {5, 9} /\ FieldN(w) = 0
    \/ Family(w) = 14 /\ FieldNN(w) \in {158, 161}

\* the condition of the skip w in m, on the registers its x and y fields name
SkipCond(m, w) ==
    CASE Family(w) = 3 -> m.V[FieldX(w)] = FieldNN(w)
      [] Family(w) = 4 -> m.V[FieldX(w)] # FieldNN(w)
      [] Family(w) = 5 -> m.V[FieldX(w)] = m.V[FieldY(w)]
      [] Family(w) = 9 -> m.V[FieldX(w)] # m.V[FieldY(w)]
      [] Family(w) = 14 /\ FieldNN(w) = 158 -> m.key[m.V[FieldX(w)]] # 0
      [] Family(w) = 14 /\ FieldNN(w) = 161 -> m.key[m.V[FieldX(w)]] = 0

\* C15: a step that executes one of the skips 3xnn, 4xnn, 5xy0, 9xy0, Ex9E,
\* ExA1 (the key index V[x] being a key) adds 4 to pc when the condition on
\* V[x] (and V[y]) holds and 2 when it does not, and changes no register,
\* no memory cell, and neither I, the stack, the framebuffer nor the keys.
C15_Skips ==
    [][(/\ Fetching /\ IsSkip(Fetched)
        /\ (Family(Fetched) = 14 => V[FieldX(Fetched)] <= 15))
       => /\ panic' = ""
          /\ pc' = pc + (IF SkipCond(Self, Fetched) THEN 4 ELSE 2)
          /\ <<V, I, memory, stack, sp, gfx, key, next_key, draw_flag>>' =
             <<V, I, memory, stack, sp, gfx, key, next_key, draw_flag>>]_vars

(* ---------------------------------------------------------------------- *)
(* C16                                                                     *)
(* ---------------------------------------------------------------------- *)
\* C16: a step that executes 00EE with the stack pointer at 0 reports an
\* error and leaves the stack pointer at 0 and the stack and pc unchanged;
\* with the stack pointer at s > 0 it sets the stack pointer to s - 1 and
\* takes pc from the most recently pushed entry, stack[s - 1].
C16_Return ==
    [][(Fetching /\ Fetched = 238) =>
          IF sp = 0
          THEN /\ panic' = "" /\ stderr' # <<>>
               /\ sp' = 0 /\ stack' = stack /\ pc' = pc
          ELSE /\ panic' = ""
               /\ sp' = sp - 1 /\ stack' = stack /\ pc' = stack[sp - 1]]_vars

\* a step has executed 00EE on the empty stack and reported it
C16_Witness ==
    /\ call.op = "update" /\ Ready(old) /\ LastFetched = 238 /\ old.sp = 0
    /\ panic = "" /\ sp = 0 /\ pc = old.pc
    /\ stderr = <<<<"Bottom of stack, cannot return! at", old.pc>>>>

(* ---------------------------------------------------------------------- *)
(* C17                                                                     *)
(* ---------------------------------------------------------------------- *)
\* the arithmetic instructions: 7xnn, 8xy4, 8xy5, 8xy7, Fx1E
IsArith(w) ==
    \/ Family(w) = 7
    \/ Family(w) = 8 /\ FieldN(w) \in {4, 5, 7}
    \/ Family(w) = 15 /\ FieldNN(w) = 30

\* the value the arithmetic word w of family 8 gives V[x] in m, modulo 256
ArithResult(m, w) ==
    LET vx == m.V[FieldX(w)]
        vy == m.V[FieldY(w)]
    IN  CASE FieldN(w) = 4 -> (vx + vy) % 256
          [] FieldN(w) = 5 -> (vx - vy) % 256
          [] FieldN(w) = 7 -> (vy - vx) % 256

\* C17: register arithmetic wraps modulo 256 and never traps: 7xnn yields
\* V[x] = (V[x] + nn) mod 256 and touches no other register, 8xy4, 8xy5 and
\* 8xy7 yield V[x] = (V[x] + V[y]), (V[x] - V[y]), (V[y] - V[x]) mod 256
\* (x = F aside, where VF ends as the flag), and Fx1E yields
\* I = (I + V[x]) mod 65536.
C17_Wraps ==
    [][(Fetching /\ IsArith(Fetched)) =>
          LET w == Fetched
              x == FieldX(w)
          IN  /\ panic' = ""
              /\ Family(w) = 7 =>
                    V' = [V EXCEPT ![x] = (V[x] + FieldNN(w)) % 256]
              /\ (Family(w) = 8 /\ x # 15) => V'[x] = ArithResult(Self, w)
              /\ Family(w) = 15 => I' = (I + V[x]) % 65536]_vars

(* ---------------------------------------------------------------------- *)
(* C18                                                                     *)
(* ---------------------------------------------------------------------- *)
\* the 0/1 flag the carry or shift word w of family 8 leaves in VF
Flag(m, w) ==
    LET vx == m.V[FieldX(w)]
        vy == m.V[FieldY(w)]
    IN  CASE FieldN(w) = 4 -> IF vx + vy > 255 THEN 1 ELSE 0
          [] FieldN(w) = 5 -> IF vx >= vy THEN 1 ELSE 0
          [] FieldN(w) = 7 -> IF vy >= vx THEN 1 ELSE 0
          [] FieldN(w) = 6 -> vx % 2
          [] FieldN(w) = 14 -> vx \div 128

\* C18: the carry and shift variants write VF last, with a 0/1 flag: the
\* carry after 8xy4, no-borrow after 8xy5 and 8xy7, the old least
\* significant bit of V[x] after 8xy6 and its old most significant bit
\* (as 0 or 1) after 8xyE; so VF is the flag also when x = F.
C18_Flags ==
    [][(Fetching /\ Family(Fetched) = 8 /\ FieldN(Fetched) \in {4, 5, 6, 7, 14})
       => (panic' = "" /\ V'[15] = Flag(Self, Fetched))]_vars

(* ---------------------------------------------------------------------- *)
(* C19                                                                     *)
(* ---------------------------------------------------------------------- *)
\* C19: whenever a step changes the framebuffer the redraw flag is raised at
\* the end of that step; a raised flag stays raised over further steps until
\* the host consumes it with draw(), after which it is false.
C19_RedrawFlag ==
    [][/\ (call'.op = "update" /\ gfx' # gfx) => draw_flag'
       /\ (call'.op = "update" /\ draw_flag) => draw_flag'
       /\ call'.op = "draw" => (panic' = "" /\ ~draw_flag')]_vars

(* ---------------------------------------------------------------------- *)
(* C20                                                                     *)
(* ---------------------------------------------------------------------- *)
\* the words that assign a timer: Fx15 and Fx18
SetsTimer(w) == Family(w) = 15 /\ FieldNN(w) \in {21, 24}

\* C20: a step that executes any instruction other than Fx15 and Fx18
\* leaves the delay timer and the sound timer unchanged (the timers move
\* only on a timer tick), and Fx07 executed right after Fx15 reads back the
\* value that Fx15 wrote.
C20_TimersDecoupled ==
    [][/\ (Fetching /\ ~SetsTimer(Fetched))
          => (delay_timer' = delay_timer /\ sound_timer' = sound_timer)
       /\ (/\ HadFetched /\ Family(LastFetched) = 15 /\ FieldNN(LastFetched) = 21
           /\ Fetching /\ Family(Fetched) = 15 /\ FieldNN(Fetched) = 7)
          => (panic' = "" /\ V'[FieldX(Fetched)] = old.V[FieldX(LastFetched)])]_vars

====
